---- MODULE Spec2Model ----
(***************************************************************************)
(* Call-turn orchestration of the voice agent                              *)
(* (voice-agent/src/index.js, twilio.js, openai.js, storage.js, config.js).*)
(*                                                                         *)
(* Node runs every handler to its next await without interruption, so one  *)
(* action is one synchronous stretch of a handler: from the arrival of a   *)
(* webhook to its first pending fetch, and from the completion of a fetch  *)
(* to the next one (or to the end of the handler).                         *)
(***************************************************************************)
EXTENDS Integers, Sequences, FiniteSets, TLC

VARIABLES
    validateSignature,  \* cfg.env.twilio.validateSignature, fixed at boot
    now,                \* Date.now(), milliseconds since boot
    greeted,            \* the Set of CallSids that already got the greeting
    recentByCall,       \* the Map CallSid -> {text, ts} of the dedup gate
    audioDir,           \* names of the files present in AUDIO_DIR
    rnd,                \* number of crypto.randomBytes(4) draws so far
    ticks,              \* number of clock advances so far
    faults,             \* number of collaborator failures so far
    reqs,               \* the webhook requests received so far, in order
    traffic,            \* the requests that may arrive in this run
    probe               \* the last direct call of a helper: name, arguments, result

vars == <<validateSignature, now, greeted, recentByCall, audioDir, rnd, ticks,
          faults, reqs, traffic, probe>>

(***************************************************************************)
(* Bounds of the model.                                                    *)
(***************************************************************************)
MaxReqs == 3
MaxTicks == 3
MaxFaults == 1
MaxInFlight == 2

(***************************************************************************)
(* Strings.  TLC evaluates Len, Head, Tail, SubSeq and \o on strings.      *)
(***************************************************************************)
\* The printable characters in code-unit order: 32..95, then 97..126.
AsciiLow == " !\"#$%&'()*+,-./0123456789:;<=>?@ABCDEFGHIJKLMNOPQRSTUVWXYZ[\\]^_"

AsciiHigh == "abcdefghijklmnopqrstuvwxyz{|}~"

IndexIn(str, c) == CHOOSE i \in 1..Len(str) : SubSeq(str, i, i) = c

CharCode(c) ==
    IF \E i \in 1..Len(AsciiLow) : SubSeq(AsciiLow, i, i) = c
    THEN 31 + IndexIn(AsciiLow, c)
    ELSE 96 + IndexIn(AsciiHigh, c)

RECURSIVE StrLess(_, _)
\* a < b in the code-unit order used by Array.prototype.sort()
StrLess(a, b) ==
    IF b = "" THEN FALSE
    ELSE IF a = "" THEN TRUE
    ELSE IF Head(a) = Head(b) THEN StrLess(Tail(a), Tail(b))
    ELSE CharCode(Head(a)) < CharCode(Head(b))

startsWith(s, p) == Len(s) >= Len(p) /\ SubSeq(s, 1, Len(p)) = p

endsWith(s, p) == Len(s) >= Len(p) /\ SubSeq(s, Len(s) - Len(p) + 1, Len(s)) = p

RECURSIVE includes(_, _)
includes(s, p) ==
    IF Len(s) < Len(p) THEN FALSE
    ELSE IF startsWith(s, p) THEN TRUE
    ELSE includes(Tail(s), p)

LowerChar(c) ==
    CASE c = "A" -> "a" [] c = "B" -> "b" [] c = "C" -> "c" [] c = "D" -> "d"
      [] c = "E" -> "e" [] c = "F" -> "f" [] c = "G" -> "g" [] c = "H" -> "h"
      [] c = "I" -> "i" [] c = "J" -> "j" [] c = "K" -> "k" [] c = "L" -> "l"
      [] c = "M" -> "m" [] c = "N" -> "n" [] c = "O" -> "o" [] c = "P" -> "p"
      [] c = "Q" -> "q" [] c = "R" -> "r" [] c = "S" -> "s" [] c = "T" -> "t"
      [] c = "U" -> "u" [] c = "V" -> "v" [] c = "W" -> "w" [] c = "X" -> "x"
      [] c = "Y" -> "y" [] c = "Z" -> "z"
      [] OTHER -> c

RECURSIVE toLowerCase(_)
toLowerCase(s) ==
    IF s = "" THEN "" ELSE LowerChar(Head(s)) \o toLowerCase(Tail(s))

RECURSIVE trimStart(_)
trimStart(s) ==
    IF s # "" /\ Head(s) = " " THEN trimStart(Tail(s)) ELSE s

RECURSIVE trimEnd(_)
trimEnd(s) ==
    IF s # "" /\ SubSeq(s, Len(s), Len(s)) = " "
    THEN trimEnd(SubSeq(s, 1, Len(s) - 1))
    ELSE s

trim(s) == trimEnd(trimStart(s))

slice(s, a, b) == SubSeq(s, a + 1, IF b < Len(s) THEN b ELSE Len(s))

Digits36 == "0123456789abcdefghijklmnopqrstuvwxyz"

RECURSIVE toString36(_)
\* Number.prototype.toString(36)
toString36(n) ==
    IF n < 36 THEN SubSeq(Digits36, n + 1, n + 1)
    ELSE toString36(n \div 36) \o SubSeq(Digits36, (n % 36) + 1, (n % 36) + 1)

RECURSIVE toHex(_, _)
\* Buffer.toString('hex') of a big-endian number of `bytes` bytes
toHex(n, bytes) ==
    IF bytes = 0 THEN ""
    ELSE toHex(n \div 256, bytes - 1)
         \o SubSeq(Digits36, ((n % 256) \div 16) + 1, ((n % 256) \div 16) + 1)
         \o SubSeq(Digits36, (n % 16) + 1, (n % 16) + 1)

(***************************************************************************)
(* Configuration (config.js).                                              *)
(***************************************************************************)
Host == "voice.example.com"
AuthToken == "tok"
GreetingText == "Hello! How can I help?"
MaxResponseChars == 600
DedupWindowMs == 5000

absoluteUrl(host, rel) ==
    "https://" \o host \o (IF startsWith(rel, "/") THEN "" ELSE "/") \o rel

RECURSIVE escapeXml(_)
escapeXml(s) ==
    IF s = "" THEN ""
    ELSE LET ch == Head(s)
         IN  (CASE ch = "<" -> "&lt;"
                [] ch = ">" -> "&gt;"
                [] ch = "&" -> "&amp;"
                [] ch = "\"" -> "&quot;"
                [] ch = "'" -> "&apos;"
                [] OTHER -> ch)
             \o escapeXml(Tail(s))

(***************************************************************************)
(* Form bodies are functions from field names to strings; a field that is  *)
(* not in the DOMAIN is undefined in the request.                          *)
(***************************************************************************)
RECURSIVE pick(_, _)
pick(body, keys) ==
    IF keys = <<>> THEN ""
    ELSE IF Head(keys) \in DOMAIN body THEN body[Head(keys)]
    ELSE pick(body, Tail(keys))

RECURSIVE indexOf(_, _)
\* String.prototype.indexOf, 0-based, -1 when absent
indexOf(s, p) ==
    IF Len(s) < Len(p) THEN -1
    ELSE IF startsWith(s, p) THEN 0
    ELSE LET r == indexOf(Tail(s), p) IN IF r < 0 THEN -1 ELSE r + 1

\* JSON.parse restricted to the documents the provider sends here: an object
\* with one string member, {"key":"value"}.  Any other text fails to parse.
JsonParse(td) ==
    LET sep == indexOf(td, "\":\"")
    IN  IF startsWith(td, "{\"") /\ endsWith(td, "\"}") /\ sep >= 2
           /\ Len(td) >= sep + 5
        THEN [ok |-> TRUE,
              key |-> SubSeq(td, 3, sep),
              value |-> SubSeq(td, sep + 4, Len(td) - 2)]
        ELSE [ok |-> FALSE, key |-> "", value |-> ""]

parseTranscriptionData(body) ==
    LET td == pick(body, <<"TranscriptionData", "transcriptionData">>)
    IN  IF td # ""
        THEN LET obj == JsonParse(td)
             IN  IF obj.ok /\ obj.key \in {"transcript", "Transcript"}
                 THEN obj.value
                 ELSE ""
        ELSE pick(body, <<"TranscriptionText", "SpeechResult", "utterance",
                          "transcript", "text">>)

\* A classifier for which every event that is not flagged "false" is final.
isFinalEventUnlessFalse(body) ==
    toLowerCase(pick(body, <<"Final", "final">>)) # "false"

isFinalEvent(body) ==
    LET finalFlag == toLowerCase(pick(body, <<"Final", "final">>))
        evt == toLowerCase(pick(body, <<"TranscriptionEvent", "event", "EventType">>))
        status == toLowerCase(pick(body, <<"TranscriptionStatus", "Status">>))
    IN  IF finalFlag = "true" THEN TRUE
        ELSE IF includes(evt, "stopped") THEN TRUE
        ELSE IF status = "completed" \/ status = "final" THEN TRUE
        ELSE FALSE

\* req.body.CallSid || req.body.callSid || ''
CallSidOf(body) ==
    IF "CallSid" \in DOMAIN body /\ body["CallSid"] # "" THEN body["CallSid"]
    ELSE IF "callSid" \in DOMAIN body /\ body["callSid"] # "" THEN body["callSid"]
    ELSE ""

(***************************************************************************)
(* Signature verification (twilio.js).  HMAC-SHA1 followed by base64 is    *)
(* taken as an injective function of (key, message); an absent header is   *)
(* the empty tuple.                                                        *)
(***************************************************************************)
HmacSha1Base64(key, msg) == <<key, msg>>

NoHeader == <<>>

\* A sort in descending order.
MaxKey(S) == CHOOSE k \in S : \A o \in S \ {k} : StrLess(o, k)

MinKey(S) == CHOOSE k \in S : \A o \in S \ {k} : StrLess(k, o)

RECURSIVE SortedKeys(_)
\* Object.keys(body).sort()
SortedKeys(S) ==
    IF S = {} THEN <<>>
    ELSE <<MinKey(S)>> \o SortedKeys(S \ {MinKey(S)})

RECURSIVE JoinParams(_, _)
JoinParams(body, keys) ==
    IF keys = <<>> THEN ""
    ELSE Head(keys) \o body[Head(keys)] \o JoinParams(body, Tail(keys))

ToSign(url, body) == url \o JoinParams(body, SortedKeys(DOMAIN body))

\* A verifier that accepts every request.
validateTwilioSignatureAcceptAll(enabled, authToken, url, sigHeader, body) == TRUE

validateTwilioSignature(enabled, authToken, url, sigHeader, body) ==
    IF ~enabled THEN TRUE
    ELSE IF sigHeader = NoHeader \/ authToken = "" \/ url = "" THEN FALSE
    ELSE HmacSha1Base64(authToken, ToSign(url, body)) = sigHeader

(***************************************************************************)
(* The audio route (index.js).                                             *)
(***************************************************************************)
Digits10 == "0123456789"

RECURSIVE IsDigits(_)
\* \d* of the range pattern
IsDigits(s) ==
    IF s = "" THEN TRUE
    ELSE (\E i \in 1..10 : SubSeq(Digits10, i, i) = SubSeq(s, 1, 1))
         /\ IsDigits(Tail(s))

RECURSIVE parseInt(_)
\* parseInt(s, 10) of a non-empty string of digits
parseInt(s) ==
    IF s = "" THEN 0
    ELSE parseInt(SubSeq(s, 1, Len(s) - 1)) * 10
         + (IndexIn(Digits10, SubSeq(s, Len(s), Len(s))) - 1)

RECURSIVE toDecimal(_)
\* the decimal text of a natural number, as a template literal prints it
toDecimal(n) ==
    IF n < 10 THEN SubSeq(Digits10, n + 1, n + 1)
    ELSE toDecimal(n \div 10) \o SubSeq(Digits10, (n % 10) + 1, (n % 10) + 1)

\* /^bytes=(\d*)-(\d*)$/.exec(range): the two groups, or no match
RangeMatch(range) ==
    IF ~startsWith(range, "bytes=") THEN [ok |-> FALSE, first |-> "", last |-> ""]
    ELSE LET rest == SubSeq(range, 7, Len(range))
             dash == indexOf(rest, "-")
         IN  IF dash < 0 THEN [ok |-> FALSE, first |-> "", last |-> ""]
             ELSE LET first == SubSeq(rest, 1, dash)
                      last == SubSeq(rest, dash + 2, Len(rest))
                  IN  IF IsDigits(first) /\ IsDigits(last)
                      THEN [ok |-> TRUE, first |-> first, last |-> last]
                      ELSE [ok |-> FALSE, first |-> "", last |-> ""]

AudioResponse(status, contentRange, contentLength, sent) ==
    [status |-> status, contentRange |-> contentRange,
     contentLength |-> contentLength, sent |-> sent]

\* The range branch of the handler once start and end are numbers.
RangeResponse(start, end, total) ==
    IF start > end \/ end >= total
    THEN AudioResponse(416, "bytes */" \o toDecimal(total), -1, 0)
    ELSE AudioResponse(206,
            "bytes " \o toDecimal(start) \o "-" \o toDecimal(end)
                \o "/" \o toDecimal(total),
            end - start + 1, end - start + 1)

\* GET/HEAD /audio/:file with the files of dir, each of total bytes; range is
\* the Range header, "" when absent.
ServeAudio(method, file, dir, total, range) ==
    IF file = "" \/ ~endsWith(file, ".wav") \/ includes(file, "..")
    THEN AudioResponse(400, "", -1, 0)
    ELSE IF file \notin dir THEN AudioResponse(404, "", -1, 0)
    ELSE IF method = "HEAD" THEN AudioResponse(200, "", total, 0)
    ELSE LET m == RangeMatch(range)
         IN  IF range # "" /\ m.ok
             THEN RangeResponse(IF m.first # "" THEN parseInt(m.first) ELSE 0,
                                IF m.last # "" THEN parseInt(m.last) ELSE total - 1,
                                total)
             ELSE AudioResponse(200, "", total, total)

(***************************************************************************)
(* Collaborators (openai.js, storage.js).                                  *)
(***************************************************************************)
\* chatReply: the HTTP outcome decides between the trimmed content and a throw
chatReply(resp) ==
    IF ~resp.ok THEN [ok |-> FALSE, content |-> ""]
    ELSE [ok |-> TRUE, content |-> trim(resp.content)]

\* A container check that looks at the first tag only.
looksLikeWavRiffOnly(buf) == Len(buf) >= 4 /\ SubSeq(buf, 1, 4) = "RIFF"

looksLikeWav(buf) ==
    /\ Len(buf) >= 12
    /\ SubSeq(buf, 1, 4) = "RIFF"
    /\ SubSeq(buf, 9, 12) = "WAVE"

\* synthesizeWavStrict: returns the buffer or throws
synthesizeWavStrict(resp) ==
    IF ~resp.ok THEN [ok |-> FALSE, buf |-> ""]
    ELSE IF ~includes(toLowerCase(resp.ct), "audio") THEN [ok |-> FALSE, buf |-> ""]
    ELSE IF ~looksLikeWav(resp.buf) THEN [ok |-> FALSE, buf |-> ""]
    ELSE [ok |-> TRUE, buf |-> resp.buf]

GreetingFile == "greeting.wav"

\* A check that never finds the greeting.
hasGreetingNever(dir) == FALSE

hasGreeting(dir) == GreetingFile \in dir

\* saveWav: the id is Date.now() in base 36, a dash, four random bytes in hex.
\* The random bytes are taken as never repeating (the n-th draw is n).
WavId(t, n) == toString36(t) \o "-" \o toHex(n, 4)

(***************************************************************************)
(* Webhook inputs.                                                         *)
(***************************************************************************)
VoiceUrl == absoluteUrl(Host, "/twilio/voice")
ResumeUrl == absoluteUrl(Host, "/twilio/resume")
TranscriptionUrl == absoluteUrl(Host, "/twilio/transcription")

Signed(url, body) == HmacSha1Base64(AuthToken, ToSign(url, body))
Forged(url, body) == HmacSha1Base64("guess", ToSign(url, body))

JsonTranscript(t) == "{\"transcript\":\"" \o t \o "\"}"

\* Call-start and resume requests
V1 == [CallSid |-> "CA1", From |-> "+15550001"]
V2 == [CallSid |-> "CA2", From |-> "+15550002"]
V0 == [From |-> "+15550003"]

\* A call-start whose CallSid is the empty string.
V00 == [CallSid |-> "", From |-> "+15550004"]

\* Transcript events: final "hello" and "bye" of call CA1, a final " hello "
\* of call CA2 in the status/plain-text shape, an interim "hello", and a
\* stop event whose text is blank.
A1 == [CallSid |-> "CA1", TranscriptionEvent |-> "transcription-content",
       TranscriptionData |-> JsonTranscript("hello"), Final |-> "true"]
B1 == [CallSid |-> "CA1", TranscriptionEvent |-> "transcription-content",
       TranscriptionData |-> JsonTranscript("bye"), Final |-> "True"]
A2 == [callSid |-> "CA2", TranscriptionStatus |-> "completed",
       TranscriptionText |-> " hello "]
NF == [CallSid |-> "CA1", TranscriptionEvent |-> "transcription-content",
       TranscriptionData |-> JsonTranscript("hello"), Final |-> "false"]
ET == [CallSid |-> "CA1", TranscriptionEvent |-> "transcription-stopped",
       TranscriptionData |-> JsonTranscript("  ")]

\* A request together with what its handler reads from it before acting: the
\* verdict of the signature verifier, the call identifier, and for a transcript
\* event the trimmed text and the finality.
Received(url, body, sig) ==
    [body |-> body, sig |-> sig,
     valid |-> validateTwilioSignature(TRUE, AuthToken, url, sig, body),
     callSid |-> CallSidOf(body),
     text |-> trim(parseTranscriptionData(body)),
     isFinal |-> isFinalEvent(body)]

Genuine(url, bodies) == { Received(url, b, Signed(url, b)) : b \in bodies }

Spoofed(url, bodies) == { Received(url, b, Forged(url, b)) : b \in bodies }

\* A form body with or without the field key.
Optional(key, values) == {[k \in {} |-> ""]} \cup {key :> v : v \in values}

\* Transcript-event bodies with every combination of the finality fields.
ClassifyBodies ==
    { f @@ g @@ e @@ t @@ u :
        f \in Optional("Final", {"true", "TRUE", "false", ""}),
        g \in Optional("final", {"true"}),
        e \in Optional("TranscriptionEvent",
                       {"transcription-content", "transcription-stopped"}),
        t \in Optional("TranscriptionStatus", {"completed", "final", "in-progress"}),
        u \in Optional("Status", {"Final"}) }

\* Arguments of the signature verifier: the call-start body V1, a body whose
\* single value swallows the second key of V1, V1 with one digit changed, and
\* a body with a lower-case and an upper-case key; two secrets and none; two
\* URLs and none; no header, or the signature of any of these under any of
\* the secrets and URLs.
W1 == [CallSid |-> "CA1From+15550001"]

M1 == [CallSid |-> "CA1", From |-> "+15550009"]

K1 == [callSid |-> "CA2", Zed |-> "1"]

VerifyBodies == {V1, W1, M1, K1}

VerifyTokens == {AuthToken, "tol", ""}

VerifyUrls == {VoiceUrl, ResumeUrl, ""}

VerifyHeaders ==
    {NoHeader} \cup
    { HmacSha1Base64(k, ToSign(u, b)) :
        k \in VerifyTokens \ {""}, u \in VerifyUrls \ {""}, b \in VerifyBodies }

\* Requests for audio: an existing file, a missing one, a name that is not a
\* .wav and a name that climbs out of the directory; files of 100 or 10
\* bytes; no Range header, ranges inside the file, ranges that end at or
\* beyond its end, open and reversed ranges, and headers that are no range.
AudioFiles == {"a.wav", "b.wav", "a.mp3", "../a.wav"}

AudioSizes == {100, 10}

AudioRanges ==
    {"", "bytes=0-9", "bytes=5-5", "bytes=0-99", "bytes=0-100", "bytes=0-199",
     "bytes=50-", "bytes=-5", "bytes=9-0", "bytes=99-99", "bytes=100-100",
     "bytes=3-12", "items=0-9", "bytes=a-b"}

ChatResponses ==
    { [ok |-> TRUE, content |-> " Hi there. "],
      [ok |-> FALSE, content |-> "rate limited"] }

TtsResponses ==
    { [ok |-> TRUE, ct |-> "audio/wav", buf |-> "RIFF$$$$WAVEfmt "],
      [ok |-> FALSE, ct |-> "application/json", buf |-> "{}"],
      [ok |-> TRUE, ct |-> "text/html", buf |-> "RIFF$$$$WAVEfmt "],
      [ok |-> TRUE, ct |-> "audio/mpeg", buf |-> "ID3$$$$$$$$$$$$$"],
      [ok |-> TRUE, ct |-> "Audio/WAV", buf |-> "RIFF$$$$WAV"],
      [ok |-> TRUE, ct |-> "audio/wav", buf |-> "RIFF$$$$AVI LIST"] }

\* The speech responses of an ordinary run: a WAV file or an error status.
PlainSpeech ==
    { [ok |-> TRUE, ct |-> "audio/wav", buf |-> "RIFF$$$$WAVEfmt "],
      [ok |-> FALSE, ct |-> "application/json", buf |-> "{}"] }

\* No speech payload received yet.
NoAudio == [ok |-> FALSE, ct |-> "", buf |-> ""]

\* The traffic of a run: the requests the provider (or somebody else) sends
\* to each endpoint.
CallTraffic ==
    [voice |-> Genuine(VoiceUrl, {V1, V2, V0, V00}),
     resume |-> Genuine(ResumeUrl, {V1}),
     transcription |-> Genuine(TranscriptionUrl, {A1}),
     speech |-> PlainSpeech]

TurnTraffic ==
    [voice |-> Genuine(VoiceUrl, {V1}),
     resume |-> Genuine(ResumeUrl, {V1}),
     transcription |-> Genuine(TranscriptionUrl, {A1, B1}),
     speech |-> PlainSpeech]

SpeechTraffic ==
    [voice |-> Genuine(VoiceUrl, {V1}),
     resume |-> Genuine(ResumeUrl, {V1}),
     transcription |-> Genuine(TranscriptionUrl, {A1}),
     speech |-> TtsResponses]

PairTraffic ==
    [voice |-> Genuine(VoiceUrl, {V1, V2}),
     resume |-> Genuine(ResumeUrl, {V2}),
     transcription |-> Genuine(TranscriptionUrl, {A1, A2}),
     speech |-> PlainSpeech]

DropTraffic ==
    [voice |-> Spoofed(VoiceUrl, {V1}),
     resume |-> Spoofed(ResumeUrl, {V1}),
     transcription |-> Genuine(TranscriptionUrl, {A2, NF, ET})
                       \cup Spoofed(TranscriptionUrl, {A2}),
     speech |-> PlainSpeech]

\* The clock advances by 4999 ms, then twice by 1 ms, and so on, which puts
\* deliveries just inside, at the edge of and just outside the dedup window.
TickStep(n) == IF n % 3 = 0 THEN 4999 ELSE 1

(***************************************************************************)
(* The orchestration core (index.js).                                      *)
(***************************************************************************)
\* A greeting decision that takes the empty identifier for a call.
ShouldPlayGreetingAnyId(callSid, g) == callSid \notin g

\* A greeting decision that forgets the greeted set.
ShouldPlayGreetingAlways(callSid, g) == callSid # ""

\* const shouldPlayGreeting = callSid && !greeted.has(callSid)
ShouldPlayGreeting(callSid, g) == callSid # "" /\ callSid \notin g

\* A gate with one entry for all calls.
shouldProcessSharedEntry(callSid, text, map, t) ==
    IF /\ "*" \in DOMAIN map
       /\ map["*"].text = text
       /\ (t - map["*"].ts) < DedupWindowMs
    THEN [process |-> FALSE, map |-> map]
    ELSE [process |-> TRUE, map |-> [k \in {"*"} |-> [text |-> text, ts |-> t]]]

\* A gate whose suppressed duplicates restart the window.
shouldProcessRefreshing(callSid, text, map, t) ==
    [process |-> ~(/\ callSid \in DOMAIN map
                   /\ map[callSid].text = text
                   /\ (t - map[callSid].ts) < DedupWindowMs),
     map |-> [k \in DOMAIN map \cup {callSid} |->
                 IF k = callSid THEN [text |-> text, ts |-> t] ELSE map[k]]]

\* A gate that keeps the first utterance of a call for the whole window.
shouldProcessKeepFirst(callSid, text, map, t) ==
    IF callSid \in DOMAIN map /\ (t - map[callSid].ts) < DedupWindowMs
    THEN [process |-> map[callSid].text # text, map |-> map]
    ELSE [process |-> TRUE,
          map |-> [k \in DOMAIN map \cup {callSid} |->
                      IF k = callSid THEN [text |-> text, ts |-> t] ELSE map[k]]]

\* A gate that answers without recording the utterance.
shouldProcessNoRecord(callSid, text, map, t) ==
    [process |-> ~(/\ callSid \in DOMAIN map
                   /\ map[callSid].text = text
                   /\ t - map[callSid].ts < DedupWindowMs),
     map |-> map]

\* A dedup gate without a window: a repeated text is suppressed for ever.
shouldProcessNoWindow(callSid, text, map, t) ==
    IF callSid \in DOMAIN map /\ map[callSid].text = text
    THEN [process |-> FALSE, map |-> map]
    ELSE [process |-> TRUE,
          map |-> [k \in DOMAIN map \cup {callSid} |->
                      IF k = callSid THEN [text |-> text, ts |-> t] ELSE map[k]]]

\* The dedup gate: the decision and the map it leaves behind.
shouldProcess(callSid, text, map, t) ==
    IF /\ callSid \in DOMAIN map
       /\ map[callSid].text = text
       /\ (t - map[callSid].ts) < DedupWindowMs
    THEN [process |-> FALSE, map |-> map]
    ELSE [process |-> TRUE,
          map |-> [k \in DOMAIN map \cup {callSid} |->
                      IF k = callSid THEN [text |-> text, ts |-> t] ELSE map[k]]]

\* <Start><Transcription .../></Start><Pause length="60"/>
ListenTwiml ==
    << <<"Start", escapeXml(TranscriptionUrl)>>, <<"Pause", "60">> >>

\* <Play> of the URL ensureGreetingWav returns
PlayGreeting ==
    << <<"Play", escapeXml(absoluteUrl(Host, "/audio/" \o GreetingFile))>> >>

\* the <Say> fallback
\* A handler without the spoken fallback.
SayNothing == <<>>

SayGreeting == << <<"Say", escapeXml(GreetingText)>> >>

VoiceTwiml(greetingBlock) == greetingBlock \o ListenTwiml

\* A resume response that speaks the greeting again.
ResumeTwimlWithGreeting == VoiceTwiml(SayGreeting)

ResumeTwiml == ListenTwiml

\* A play URL that leaves out the extension of the file.
PlayUrlNoExtension(id) == absoluteUrl(Host, "/audio/" \o id)

\* const playUrl = absoluteUrl(cfg.env.host, `/audio/${id}.wav`)
PlayUrl(id) == absoluteUrl(Host, "/audio/" \o id \o ".wav")

\* The markup redirectCallToPlay posts to the call-control API for a call.
redirectCallToPlay(callSid, audioUrl, resumeUrl) ==
    <<"redirect", callSid, audioUrl, "https://" \o Host \o "/twilio/voice">>

\* What the call-start and resume handlers answer to an unverified request.
RejectStatus == 403

\* The immediate acknowledgment of the transcription webhook.
TranscriptionAck == << <<"ack", "204">> >>

\* A handler without the signature check.
TranscriptionRouteUnverified(enabled, valid, callSid, isFinal, text) ==
    IF callSid = "" THEN "no-callsid"
    ELSE IF ~isFinal THEN "non-final"
    ELSE IF text = "" THEN "no-text"
    ELSE "finalize"

\* A handler without the final-only return.
TranscriptionRouteAnyEvent(enabled, valid, callSid, isFinal, text) ==
    IF enabled /\ ~valid THEN "invalid-signature"
    ELSE IF callSid = "" THEN "no-callsid"
    ELSE IF text = "" THEN "no-text"
    ELSE "finalize"

\* The early returns of the transcription handler, in the order of the code.
TranscriptionRoute(enabled, valid, callSid, isFinal, text) ==
    IF enabled /\ ~valid THEN "invalid-signature"
    ELSE IF callSid = "" THEN "no-callsid"
    ELSE IF ~isFinal THEN "non-final"
    ELSE IF text = "" THEN "no-text"
    ELSE "finalize"

\* A finalize that carries on after a failed call.
NextPcIgnoringFailure(pc, ok) ==
    CASE pc = "await_chat" -> "await_tts"
      [] pc = "await_tts" -> "await_redirect"
      [] OTHER -> "done"

\* Where finalizeUtterance goes when the awaited call returns (ok) or throws.
NextPc(pc, ok) ==
    IF ~ok THEN "done"
    ELSE CASE pc = "await_chat" -> "await_tts"
           [] pc = "await_tts" -> "await_redirect"
           [] OTHER -> "done"

NewReq(kind, in) ==
    [kind |-> kind, in |-> in, at |-> now,
     pc |-> "done", status |-> 0, twiml |-> <<>>, out |-> <<>>,
     log |-> "", error |-> "", audio |-> NoAudio]

\* A handler that answers only when its work has ended.
AcknowledgeAfterWork(r) == r

\* reply.code(204).send() as the first statement of the transcription handler.
Acknowledge(r) == [r EXCEPT !.status = 204, !.out = TranscriptionAck]

Update(i, r) == reqs' = [reqs EXCEPT ![i] = r]

EmptyMap == [k \in {} |-> [text |-> "", ts |-> 0]]

\* A collaborator call fails (an error status, a bad payload, a full disk).
Fault == faults < MaxFaults /\ faults' = faults + 1

\* A request is pending while its handler waits for a collaborator.
Pending == {i \in 1..Len(reqs) : reqs[i].pc # "done"}

\* Another request arrives.
Admit == Len(reqs) < MaxReqs /\ Cardinality(Pending) < MaxInFlight

\* No helper has been called directly.
NoProbe == [fn |-> "", in |-> <<>>, out |-> <<>>]

\* The helper fn applied to the arguments in gave out.
Called(fn, in, out) == [fn |-> fn, in |-> in, out |-> <<out>>]

Boot ==
    /\ now = 0
    /\ greeted = {}
    /\ recentByCall = EmptyMap
    /\ audioDir = {}
    /\ rnd = 0
    /\ ticks = 0
    /\ faults = 0
    /\ reqs = <<>>
    /\ probe = NoProbe

InitCalls == Boot /\ validateSignature = TRUE /\ traffic = CallTraffic

InitTurns == Boot /\ validateSignature = TRUE /\ traffic = TurnTraffic

InitSpeech == Boot /\ validateSignature = TRUE /\ traffic = SpeechTraffic

InitPairs == Boot /\ validateSignature = TRUE /\ traffic = PairTraffic

InitDrops == Boot /\ validateSignature \in BOOLEAN /\ traffic = DropTraffic

Init == InitCalls \/ InitTurns \/ InitSpeech \/ InitPairs \/ InitDrops

\* The clock advances between two arrivals.
Tick ==
    /\ ticks < MaxTicks
    /\ Len(reqs) > 0 /\ Len(reqs) < MaxReqs
    /\ now' = now + TickStep(ticks)
    /\ ticks' = ticks + 1
    /\ UNCHANGED <<probe, traffic, validateSignature, greeted, recentByCall, audioDir, rnd, faults,
                   reqs>>

\* POST /twilio/voice up to its response or to the pending greeting synthesis.
VoiceWebhook ==
    /\ Admit
    /\ \E in \in traffic.voice :
        LET valid == in.valid
            callSid == in.callSid
            play == ShouldPlayGreeting(callSid, greeted)
            r == NewReq("voice", in)
        IN  IF validateSignature /\ ~valid
            THEN /\ reqs' = Append(reqs, [r EXCEPT !.status = RejectStatus,
                                                   !.log = "signature invalid"])
                 /\ UNCHANGED greeted
            ELSE /\ greeted' = IF play THEN greeted \cup {callSid} ELSE greeted
                 /\ reqs' = Append(reqs,
                      IF ~play
                      THEN [r EXCEPT !.status = 200, !.twiml = VoiceTwiml(<<>>)]
                      ELSE IF hasGreeting(audioDir)
                      THEN [r EXCEPT !.status = 200,
                              !.twiml = VoiceTwiml(PlayGreeting)]
                      ELSE [r EXCEPT !.pc = "await_greeting_tts",
                              !.out = << <<"tts", GreetingText>> >>,
                              !.log = "greeting missing"])
    /\ UNCHANGED <<probe, traffic, validateSignature, now, recentByCall, audioDir, rnd, ticks, faults>>

\* The greeting synthesis of a call-start returns: saveGreeting and <Play>, or
\* the <Say> fallback of the catch block.
GreetingTtsResponds ==
    \E i \in 1..Len(reqs), resp \in traffic.speech, diskOk \in BOOLEAN :
        /\ reqs[i].pc = "await_greeting_tts"
        /\ LET wav == synthesizeWavStrict(resp)
               r == reqs[i]
           IN  IF wav.ok /\ diskOk
               THEN /\ audioDir' = audioDir \cup {GreetingFile}
                    /\ UNCHANGED faults
                    /\ Update(i, [r EXCEPT !.pc = "done", !.status = 200,
                          !.audio = resp,
                          !.out = r.out \o << <<"saveGreeting", GreetingFile>> >>,
                          !.twiml = VoiceTwiml(PlayGreeting),
                          !.log = "greeting.wav created"])
               ELSE /\ Fault
                    /\ UNCHANGED audioDir
                    /\ Update(i, [r EXCEPT !.pc = "done", !.status = 200,
                          !.audio = resp,
                          !.twiml = VoiceTwiml(SayGreeting),
                          !.error = IF wav.ok THEN "saveGreeting" ELSE "tts"])
        /\ UNCHANGED <<probe, traffic, validateSignature, now, greeted, recentByCall, rnd, ticks>>

\* POST /twilio/resume.
ResumeWebhook ==
    /\ Admit
    /\ \E in \in traffic.resume :
        LET valid == in.valid
            r == NewReq("resume", in)
        IN  reqs' = Append(reqs,
                IF validateSignature /\ ~valid
                THEN [r EXCEPT !.status = RejectStatus, !.log = "signature invalid"]
                ELSE [r EXCEPT !.status = 200, !.twiml = ResumeTwiml])
    /\ UNCHANGED <<probe, traffic, validateSignature, now, greeted, recentByCall, audioDir, rnd, ticks,
                   faults>>

\* POST /twilio/transcription from the acknowledgment to the first await of
\* finalizeUtterance (the chat request), or to an early return.
TranscriptionWebhook ==
    /\ Admit
    /\ \E in \in traffic.transcription :
        LET valid == in.valid
            callSid == in.callSid
            text == in.text
            isFinal == in.isFinal
            route == TranscriptionRoute(validateSignature, valid, callSid, isFinal, text)
            gate == shouldProcess(callSid, text, recentByCall, now)
            r == Acknowledge(NewReq("transcription", in))
        IN  IF route # "finalize"
            THEN /\ reqs' = Append(reqs, [r EXCEPT !.log = route])
                 /\ UNCHANGED recentByCall
            ELSE IF ~gate.process
            THEN /\ reqs' = Append(reqs, [r EXCEPT !.log = "duplicate"])
                 /\ recentByCall' = gate.map
            ELSE /\ recentByCall' = gate.map
                 /\ reqs' = Append(reqs, [r EXCEPT !.pc = "await_chat",
                        !.out = r.out \o << <<"chat", text>> >>,
                        !.log = "final transcript"])
    /\ UNCHANGED <<probe, traffic, validateSignature, now, greeted, audioDir, rnd, ticks, faults>>

\* The chat request of a finalize returns: start the synthesis of the reply,
\* or end in the catch block of the handler.
ChatResponds ==
    \E i \in 1..Len(reqs), resp \in ChatResponses :
        /\ reqs[i].pc = "await_chat"
        /\ LET reply == chatReply(resp)
               r == reqs[i]
               assistantText == slice(reply.content, 0, MaxResponseChars)
               next == NextPc(r.pc, reply.ok)
           IN  /\ IF reply.ok THEN UNCHANGED faults ELSE Fault
               /\ Update(i, [r EXCEPT
                     !.pc = next,
                     !.out = IF next = "await_tts"
                             THEN r.out \o << <<"tts", assistantText>> >>
                             ELSE r.out,
                     !.error = IF reply.ok THEN "" ELSE "chat"])
        /\ UNCHANGED <<probe, traffic, validateSignature, now, greeted, recentByCall, audioDir,
                       rnd, ticks>>

\* The synthesis of a reply returns: saveWav and the redirect request, or the
\* catch block.
TtsResponds ==
    \E i \in 1..Len(reqs), resp \in traffic.speech, diskOk \in BOOLEAN :
        /\ reqs[i].pc = "await_tts"
        /\ LET wav == synthesizeWavStrict(resp)
               r == reqs[i]
               id == WavId(now, rnd)
               playUrl == PlayUrl(id)
               next == NextPc(r.pc, wav.ok /\ diskOk)
               error == IF ~wav.ok THEN "tts" ELSE IF ~diskOk THEN "save" ELSE ""
           IN  /\ IF wav.ok /\ diskOk THEN UNCHANGED faults ELSE Fault
               /\ IF next = "await_redirect"
                  THEN /\ audioDir' = audioDir \cup {id \o ".wav"}
                       /\ rnd' = rnd + 1
                       /\ Update(i, [r EXCEPT !.pc = next, !.error = error,
                             !.audio = resp,
                             !.out = r.out \o << <<"save", id \o ".wav">>,
                                redirectCallToPlay(r.in.callSid, playUrl, ResumeUrl) >>])
                  ELSE /\ UNCHANGED <<audioDir, rnd>>
                       /\ Update(i, [r EXCEPT !.pc = next, !.error = error,
                                                !.audio = resp])
        /\ UNCHANGED <<probe, traffic, validateSignature, now, greeted, recentByCall, ticks>>

\* The call-control API answers the redirect request.
RedirectResponds ==
    \E i \in 1..Len(reqs), ok \in BOOLEAN :
        /\ reqs[i].pc = "await_redirect"
        /\ LET r == reqs[i]
               next == NextPc(r.pc, ok)
           IN  /\ IF ok THEN UNCHANGED faults ELSE Fault
               /\ Update(i, [r EXCEPT !.pc = next,
                                      !.log = IF ok THEN "redirected" ELSE r.log,
                                      !.error = IF ok THEN "" ELSE "redirect"])
        /\ UNCHANGED <<probe, traffic, validateSignature, now, greeted, recentByCall, audioDir,
                       rnd, ticks>>

Next ==
    \/ Tick
    \/ VoiceWebhook
    \/ GreetingTtsResponds
    \/ ResumeWebhook
    \/ TranscriptionWebhook
    \/ ChatResponds
    \/ TtsResponds
    \/ RedirectResponds

\* isFinalEvent called on a body.
Classify ==
    /\ probe = NoProbe
    /\ \E body \in ClassifyBodies :
         probe' = Called("isFinalEvent", <<body>>, isFinalEvent(body))
    /\ UNCHANGED <<traffic, validateSignature, now, greeted, recentByCall, audioDir,
                   rnd, ticks, faults, reqs>>

\* validateTwilioSignature called on a request.
Verify ==
    /\ probe = NoProbe
    /\ \E enabled \in BOOLEAN, authToken \in VerifyTokens, url \in VerifyUrls,
          sigHeader \in VerifyHeaders, body \in VerifyBodies :
         probe' = Called("validateTwilioSignature",
                         <<enabled, authToken, url, sigHeader, body>>,
                         validateTwilioSignature(enabled, authToken, url, sigHeader, body))
    /\ UNCHANGED <<traffic, validateSignature, now, greeted, recentByCall, audioDir,
                   rnd, ticks, faults, reqs>>

\* The audio route called on a request.
Audio ==
    /\ probe = NoProbe
    /\ \E method \in {"GET", "HEAD"}, file \in AudioFiles, total \in AudioSizes,
          range \in AudioRanges :
         probe' = Called("audio", <<method, file, total, range>>,
                         ServeAudio(method, file, {"a.wav"}, total, range))
    /\ UNCHANGED <<traffic, validateSignature, now, greeted, recentByCall, audioDir,
                   rnd, ticks, faults, reqs>>

\* One direct call of a helper.
NextHelpers ==
    \/ Classify
    \/ Verify
    \/ Audio

Spec == Init /\ [][Next]_vars

\* Runs of call-starts and resumes, of conversation turns, and of events that
\* the handlers drop.
SpecCalls == InitCalls /\ [][Next]_vars

SpecTurns == InitTurns /\ [][Next]_vars

SpecSpeech == InitSpeech /\ [][Next]_vars

SpecPairs == InitPairs /\ [][Next]_vars

SpecDrops == InitDrops /\ [][Next]_vars

\* Direct calls of the pure helpers on bounded sets of arguments.
SpecHelpers == InitCalls /\ [][NextHelpers]_vars

(***************************************************************************)
(* Properties.                                                             *)
(***************************************************************************)
CallSids == {"CA1", "CA2"}

Ops(out) == [k \in 1..Len(out) |-> out[k][1]]

Started(r) == \E k \in 1..Len(r.out) : r.out[k][1] = "chat"

HasGreeting(tw) == tw # <<>> /\ tw[1][1] \in {"Play", "Say"}

\* The call-starts of call c that passed the signature gate.
CallStarts(c) ==
    {i \in 1..Len(reqs) : /\ reqs[i].kind = "voice"
                          /\ reqs[i].in.callSid = c
                          /\ reqs[i].status # RejectStatus}

\* The transcript events that reach finalizeUtterance: verified, with a call
\* identifier, final, and with text.
Deliveries ==
    {i \in 1..Len(reqs) : /\ reqs[i].kind = "transcription"
                          /\ (validateSignature => reqs[i].in.valid)
                          /\ reqs[i].in.callSid # ""
                          /\ reqs[i].in.isFinal
                          /\ reqs[i].in.text # ""}

SameTurn(i, j) ==
    /\ reqs[i].in.callSid = reqs[j].in.callSid
    /\ reqs[i].in.text = reqs[j].in.text

\* No other text of the same call was processed between deliveries i and j.
NothingBetween(i, j) ==
    \A k \in Deliveries :
        (i < k /\ k < j /\ reqs[k].in.callSid = reqs[i].in.callSid /\ Started(reqs[k]))
            => reqs[k].in.text = reqs[i].in.text

\* C1: a call identifier enters the greeted set on its first call-start and
\* never leaves it; the response to that first call-start, and to no later
\* one, carries a greeting; a later call-start starts no greeting synthesis,
\* also while the synthesis of the first one is still pending.
C1_GreetedOnce ==
    /\ [](\A c \in CallSids :
            /\ (c \in greeted) = (CallStarts(c) # {})
            /\ \A i \in CallStarts(c) :
                 IF \A j \in CallStarts(c) : i <= j
                 THEN /\ reqs[i].pc = "done" => HasGreeting(reqs[i].twiml)
                      /\ reqs[i].pc # "done" => Ops(reqs[i].out) = <<"tts">>
                 ELSE /\ reqs[i].pc = "done"
                      /\ reqs[i].out = <<>>
                      /\ reqs[i].twiml = ListenTwiml)
    /\ [][greeted \subseteq greeted']_vars

\* Two call-starts of CA1 overlap: the first waits for the greeting synthesis,
\* the second has been answered without a greeting.
C1_Witness ==
    \E i, j \in CallStarts("CA1") :
        /\ i < j
        /\ reqs[i].pc = "await_greeting_tts"
        /\ reqs[j].status = 200
        /\ ~HasGreeting(reqs[j].twiml)

\* C2: of two deliveries of the same final text for the same call less than
\* 5000 ms apart (and no other text of that call processed between them) the
\* second makes no chat request; a delivery more than 5000 ms after every
\* processed delivery of that text is processed again; no delivery makes more
\* than one chat request.
C2_DedupWindow ==
    /\ \A i, j \in Deliveries :
         (/\ i < j
          /\ SameTurn(i, j)
          /\ NothingBetween(i, j)
          /\ Started(reqs[i])
          /\ reqs[j].at - reqs[i].at < DedupWindowMs)
            => ~Started(reqs[j])
    /\ \A j \in Deliveries :
         (\A i \in Deliveries :
             (i < j /\ SameTurn(i, j) /\ Started(reqs[i]))
                => reqs[j].at - reqs[i].at > DedupWindowMs)
            => Started(reqs[j])
    /\ \A i \in Deliveries :
         Cardinality({k \in 1..Len(reqs[i].out) : reqs[i].out[k][1] = "chat"}) <= 1

\* The same final text is delivered three times: processed, suppressed inside
\* the window, and processed again outside of it.
C2_Witness ==
    /\ Len(reqs) = 3
    /\ {1, 2, 3} \subseteq Deliveries
    /\ SameTurn(1, 2) /\ SameTurn(2, 3)
    /\ Started(reqs[1])
    /\ reqs[2].at - reqs[1].at < DedupWindowMs /\ ~Started(reqs[2])
    /\ reqs[3].at - reqs[1].at > DedupWindowMs /\ Started(reqs[3])

\* C3: every redirect that finalize posts to the call-control API plays the
\* URL of the artifact just saved and then redirects to /twilio/resume, never
\* to /twilio/voice.
C3_RedirectToResume ==
    \A i \in 1..Len(reqs) : \A k \in 1..Len(reqs[i].out) :
        reqs[i].out[k][1] = "redirect"
            => /\ k > 1
               /\ reqs[i].out[k - 1][1] = "save"
               /\ reqs[i].out[k][3] = "https://" \o Host \o "/audio/" \o reqs[i].out[k - 1][2]
               /\ reqs[i].out[k][4] = ResumeUrl
               /\ reqs[i].out[k][4] # VoiceUrl

\* The transcript events that are not final, or final without text.
Dropped ==
    {i \in 1..Len(reqs) : /\ reqs[i].kind = "transcription"
                          /\ (~reqs[i].in.isFinal \/ reqs[i].in.text = "")}

\* C4: a transcript event that is not final, or that is final with blank
\* text, makes no chat, synthesis, save or redirect request, and its arrival
\* leaves the greeted set, the dedup map and the audio directory unchanged.
C4_DroppedNoEffect ==
    /\ [](\A i \in Dropped :
            /\ reqs[i].pc = "done"
            /\ \A k \in 1..Len(reqs[i].out) : reqs[i].out[k][1] = "ack")
    /\ [][(/\ Len(reqs') = Len(reqs) + 1
           /\ reqs'[Len(reqs')].kind = "transcription"
           /\ (~reqs'[Len(reqs')].in.isFinal \/ reqs'[Len(reqs')].in.text = ""))
            => (/\ greeted' = greeted
                /\ recentByCall' = recentByCall
                /\ audioDir' = audioDir)]_vars

\* An interim event and a final event with blank text have both been dropped
\* while the dedup map holds an entry.
C4_Witness ==
    /\ \E i \in Dropped : ~reqs[i].in.isFinal /\ reqs[i].in.text # ""
    /\ \E j \in Dropped : reqs[j].in.isFinal /\ reqs[j].in.text = ""
    /\ DOMAIN recentByCall # {}

\* C5: a finalize that ran to its end without a failure made, in this order,
\* one chat request with the transcript, one synthesis request, one write of
\* an artifact and one redirect, the redirect being for the same call and
\* playing the URL of that artifact; every redirect plays an artifact that is
\* on disk, and no two writes name the same artifact.
C5_FinalizeOrder ==
    /\ \A i \in Deliveries :
         (reqs[i].pc = "done" /\ reqs[i].error = "" /\ Started(reqs[i]))
            => /\ Ops(reqs[i].out) = <<"ack", "chat", "tts", "save", "redirect">>
               /\ reqs[i].out[2][2] = reqs[i].in.text
               /\ reqs[i].out[5][2] = reqs[i].in.callSid
    /\ \A i \in 1..Len(reqs) : \A k \in 1..Len(reqs[i].out) :
         reqs[i].out[k][1] = "redirect"
            => /\ k > 1
               /\ reqs[i].out[k - 1][1] = "save"
               /\ reqs[i].out[k - 1][2] \in audioDir
               /\ reqs[i].out[k][3] = "https://" \o Host \o "/audio/" \o reqs[i].out[k - 1][2]
    /\ \A i, j \in 1..Len(reqs) : \A k \in 1..Len(reqs[i].out), l \in 1..Len(reqs[j].out) :
         (/\ reqs[i].out[k][1] = "save"
          /\ reqs[j].out[l][1] = "save"
          /\ reqs[i].out[k][2] = reqs[j].out[l][2])
            => i = j /\ k = l

\* Two turns have been answered: each finalize ran to the redirect.
C5_Witness ==
    \E i, j \in Deliveries :
        /\ i # j
        /\ reqs[i].log = "redirected" /\ reqs[j].log = "redirected"
        /\ reqs[i].at = reqs[j].at

\* C6: a failed call ends the finalize: nothing is requested after it, the
\* requests made before it are not repeated, the handler has returned, the
\* request is never touched again, and the greeted set is as it was.
C6_FailureEndsFinalize ==
    /\ [](\A i \in 1..Len(reqs) :
            reqs[i].kind = "transcription"
                => /\ Ops(reqs[i].out)
                        = SubSeq(<<"ack", "chat", "tts", "save", "redirect">>,
                                 1, Len(reqs[i].out))
                   /\ reqs[i].error # ""
                        => /\ reqs[i].pc = "done"
                           /\ Len(reqs[i].out) =
                                CASE reqs[i].error = "chat" -> 2
                                  [] reqs[i].error = "tts" -> 3
                                  [] reqs[i].error = "save" -> 3
                                  [] OTHER -> 5)
    /\ [][\A i \in 1..Len(reqs) :
            /\ (reqs[i].error # "" => reqs'[i] = reqs[i])
            /\ (reqs[i].error # reqs'[i].error
                    => greeted' = greeted /\ Len(reqs') = Len(reqs))]_vars

\* One finalize failed at the chat request and a later turn of the same call
\* has been answered.
C6_Witness ==
    \E i, j \in Deliveries :
        /\ i < j
        /\ reqs[i].error = "chat"
        /\ reqs[i].in.callSid = reqs[j].in.callSid
        /\ reqs[j].at > reqs[i].at
        /\ reqs[j].log = "redirected"

\* C7: every transcript webhook request carries the 204 acknowledgment as the
\* first thing it emitted, before any chat, synthesis or redirect request, in
\* every state from its arrival on: while the finalize is pending (and so if
\* it never ends), after it succeeded and after it failed; no later step
\* changes the acknowledgment.
C7_AckFirst ==
    /\ [](\A i \in 1..Len(reqs) :
            reqs[i].kind = "transcription"
                => /\ reqs[i].status = 204
                   /\ Len(reqs[i].out) >= 1
                   /\ reqs[i].out[1] = <<"ack", "204">>
                   /\ \A k \in 2..Len(reqs[i].out) : reqs[i].out[k][1] # "ack")
    /\ [][\A i \in 1..Len(reqs) :
            reqs[i].kind = "transcription"
                => /\ reqs'[i].status = reqs[i].status
                   /\ reqs'[i].out[1] = reqs[i].out[1]]_vars

\* Three acknowledged transcript events: the finalize of one failed, that of
\* another ran to the redirect, that of the third is still pending.
C7_Witness ==
    \E i, j, k \in Deliveries :
        /\ reqs[i].error # "" /\ reqs[i].status = 204
        /\ reqs[j].log = "redirected" /\ reqs[j].status = 204
        /\ reqs[k].pc # "done" /\ reqs[k].status = 204

\* C8: a final transcript that arrives while an earlier webhook with the same
\* call and text is suspended in its finalize, less than 5000 ms after it and
\* with no other utterance of the call processed in between, starts no
\* downstream work; the webhook that is processed has recorded its utterance
\* in the dedup map in the step of its arrival, before its first await.
C8_ConcurrentDuplicates ==
    /\ [](\A c \in CallSids :
            \A l \in {i \in Deliveries : reqs[i].in.callSid = c /\ Started(reqs[i])} :
                (\A m \in Deliveries :
                    (reqs[m].in.callSid = c /\ Started(reqs[m])) => m <= l)
                    => /\ c \in DOMAIN recentByCall
                       /\ recentByCall[c] = [text |-> reqs[l].in.text, ts |-> reqs[l].at])
    /\ [][(/\ Len(reqs') = Len(reqs) + 1
           /\ reqs'[Len(reqs')].kind = "transcription"
           /\ \E i \in Pending :
                /\ reqs[i].kind = "transcription"
                /\ Started(reqs[i])
                /\ reqs[i].in.callSid = reqs'[Len(reqs')].in.callSid
                /\ reqs[i].in.text = reqs'[Len(reqs')].in.text
                /\ now - reqs[i].at < DedupWindowMs
                /\ \A m \in (i + 1)..Len(reqs) :
                     (/\ reqs[m].kind = "transcription"
                      /\ reqs[m].in.callSid = reqs[i].in.callSid
                      /\ Started(reqs[m]))
                        => reqs[m].in.text = reqs[i].in.text)
            => (/\ ~Started(reqs'[Len(reqs')])
                /\ reqs'[Len(reqs')].pc = "done"
                /\ recentByCall' = recentByCall)]_vars

\* Two duplicates arrived while the first webhook of the turn was suspended:
\* only the first started downstream work.
C8_Witness ==
    /\ Len(reqs) = 3
    /\ {1, 2, 3} \subseteq Deliveries
    /\ SameTurn(1, 2) /\ SameTurn(2, 3)
    /\ reqs[1].pc # "done" /\ Started(reqs[1])
    /\ reqs[3].at > reqs[1].at
    /\ reqs[3].at - reqs[1].at < DedupWindowMs
    /\ reqs[2].log = "duplicate" /\ reqs[3].log = "duplicate"

\* The resume requests that passed the signature check.
Resumes ==
    {i \in 1..Len(reqs) : /\ reqs[i].kind = "resume"
                          /\ (validateSignature => reqs[i].in.valid)}

\* C9: a resume request is answered with the start-listening markup and no
\* greeting, with no outbound request, whether or not its call is in the
\* greeted set; its arrival changes neither the greeted set nor the dedup map.
C9_ResumeListensOnly ==
    /\ [](\A i \in Resumes :
            /\ reqs[i].pc = "done"
            /\ reqs[i].status = 200
            /\ reqs[i].twiml = ListenTwiml
            /\ ~HasGreeting(reqs[i].twiml)
            /\ reqs[i].out = <<>>)
    /\ [][(Len(reqs') = Len(reqs) + 1 /\ reqs'[Len(reqs')].kind = "resume")
            => (greeted' = greeted /\ recentByCall' = recentByCall)]_vars

\* A resume for a call that had not been greeted, then the call-start of that
\* call, then a resume for the greeted call.
C9_Witness ==
    /\ Len(reqs) = 3
    /\ {1, 3} \subseteq Resumes
    /\ reqs[1].in.callSid = "CA1" /\ reqs[3].in.callSid = "CA1"
    /\ reqs[2].kind = "voice" /\ reqs[2].in.callSid = "CA1"
    /\ HasGreeting(reqs[2].twiml)
    /\ "CA1" \in greeted

\* The requests whose signature does not verify while verification is on.
Unverified ==
    {i \in 1..Len(reqs) : validateSignature /\ ~reqs[i].in.valid}

\* C10 as stated: with verification enabled, a request to any of the three
\* webhook endpoints whose signature does not verify gets a client-error
\* response.
C10_AllRejected ==
    \A i \in Unverified : reqs[i].status \in 400..499

\* C10: with verification enabled, a call-start or resume request whose
\* signature does not verify is rejected with 403 and no markup; a transcript
\* event whose signature does not verify is answered with the 204
\* acknowledgment, which is sent before the verification, and is then dropped
\* without any downstream request. The arrival of such a request changes
\* neither the greeted set, nor the dedup map, nor the audio directory.
C10_RejectedOrDropped ==
    /\ [](\A i \in Unverified :
            /\ reqs[i].pc = "done"
            /\ reqs[i].twiml = <<>>
            /\ reqs[i].kind \in {"voice", "resume"}
                => reqs[i].status = 403 /\ reqs[i].out = <<>>
            /\ reqs[i].kind = "transcription"
                => reqs[i].status = 204 /\ Ops(reqs[i].out) = <<"ack">>)
    /\ [][(/\ Len(reqs') = Len(reqs) + 1
           /\ validateSignature
           /\ ~reqs'[Len(reqs')].in.valid)
            => (/\ greeted' = greeted
                /\ recentByCall' = recentByCall
                /\ audioDir' = audioDir)]_vars

\* One request with a forged signature has reached each of the three
\* endpoints with verification on.
C10_Witness ==
    /\ \E i \in Unverified : reqs[i].kind = "voice" /\ reqs[i].status = 403
    /\ \E i \in Unverified : reqs[i].kind = "resume" /\ reqs[i].status = 403
    /\ \E i \in Unverified :
         /\ reqs[i].kind = "transcription"
         /\ reqs[i].in.isFinal /\ reqs[i].in.text # ""
         /\ reqs[i].status = 204

\* The processed deliveries of the call of delivery i that came before it.
OwnEarlier(i) ==
    {j \in Deliveries : /\ j < i
                        /\ reqs[j].in.callSid = reqs[i].in.callSid
                        /\ Started(reqs[j])}

\* The last of them.
OwnLast(i) == CHOOSE l \in OwnEarlier(i) : \A j \in OwnEarlier(i) : j <= l

\* C11: a step taken for call A leaves the greeted membership and the dedup
\* entry of every other call B as they were; hence the greeting decision of a
\* call-start and the dedup decision of a delivery are functions of the
\* earlier events of the same call alone: a call-start is greeted exactly when
\* no call-start of its call came before it, and a delivery is processed
\* exactly when the last processed delivery of its call had another text or
\* is 5000 ms or more old.
C11_CallsIndependent ==
    /\ [][/\ \A b \in CallSids :
               (Len(reqs') = Len(reqs) + 1 /\ reqs'[Len(reqs')].in.callSid # b)
                 => /\ (b \in greeted') = (b \in greeted)
                    /\ (b \in DOMAIN recentByCall') = (b \in DOMAIN recentByCall)
                    /\ b \in DOMAIN recentByCall
                         => recentByCall'[b] = recentByCall[b]
          /\ Len(reqs') = Len(reqs)
               => greeted' = greeted /\ recentByCall' = recentByCall]_vars
    /\ [](\A c \in CallSids : \A i \in CallStarts(c) :
            (HasGreeting(reqs[i].twiml) \/ reqs[i].pc # "done")
                = (\A j \in CallStarts(c) : i <= j))
    /\ [](\A i \in Deliveries :
            Started(reqs[i])
                = (\/ OwnEarlier(i) = {}
                   \/ reqs[OwnLast(i)].in.text # reqs[i].in.text
                   \/ reqs[i].at - reqs[OwnLast(i)].at >= DedupWindowMs))

\* The same final text was delivered for two calls within the window and was
\* processed for each, and both calls were greeted.
C11_Witness ==
    /\ \E i, j \in Deliveries :
         /\ i < j
         /\ reqs[i].in.callSid = "CA1" /\ reqs[j].in.callSid = "CA2"
         /\ reqs[i].in.text = reqs[j].in.text
         /\ reqs[j].at - reqs[i].at < DedupWindowMs
         /\ Started(reqs[i]) /\ Started(reqs[j])
         /\ reqs[i].pc # "done"
    /\ \E k \in 1..Len(reqs) : reqs[k].kind = "voice"

\* The greeting writes made so far.
GreetingWrites ==
    {<<i, k>> \in (1..Len(reqs)) \X (1..5) :
        k <= Len(reqs[i].out) /\ reqs[i].out[k][1] = "saveGreeting"}

\* C12: in every reachable state at most one write of the greeting artifact
\* has occurred.
C12_OneGreetingWrite == Cardinality(GreetingWrites) <= 1

\* C13: a call-start that is to be greeted while greeting.wav exists makes no
\* synthesis request and answers at once with <Play> of the absolute URL of
\* the greeting; when the file is missing it requests the synthesis of the
\* configured phrase, and a synthesis that succeeds is followed by the write
\* of the file and the same <Play>.
C13_GreetingLazy ==
    /\ [][(/\ Len(reqs') = Len(reqs) + 1
           /\ reqs'[Len(reqs')].kind = "voice"
           /\ reqs'[Len(reqs')].status # RejectStatus
           /\ reqs'[Len(reqs')].in.callSid # ""
           /\ reqs'[Len(reqs')].in.callSid \notin greeted)
            => IF GreetingFile \in audioDir
               THEN /\ reqs'[Len(reqs')].out = <<>>
                    /\ reqs'[Len(reqs')].pc = "done"
                    /\ reqs'[Len(reqs')].twiml[1]
                         = <<"Play", "https://" \o Host \o "/audio/greeting.wav">>
                    /\ audioDir' = audioDir
               ELSE /\ reqs'[Len(reqs')].pc = "await_greeting_tts"
                    /\ reqs'[Len(reqs')].out = << <<"tts", GreetingText>> >>]_vars
    /\ [](\A i \in 1..Len(reqs) :
            (\E k \in 1..Len(reqs[i].out) : reqs[i].out[k][1] = "saveGreeting")
                => /\ Ops(reqs[i].out) = <<"tts", "saveGreeting">>
                   /\ GreetingFile \in audioDir
                   /\ reqs[i].twiml[1]
                        = <<"Play", "https://" \o Host \o "/audio/greeting.wav">>)

\* A first call-start created the greeting; the first call-start of another
\* call then played it without any request.
C13_Witness ==
    \E i, j \in 1..Len(reqs) :
        /\ i < j
        /\ Ops(reqs[i].out) = <<"tts", "saveGreeting">>
        /\ reqs[j].kind = "voice"
        /\ reqs[j].in.callSid # reqs[i].in.callSid
        /\ reqs[j].out = <<>>
        /\ reqs[j].twiml # <<>> /\ reqs[j].twiml[1][1] = "Play"

\* A speech response with a success status, an audio content type, at least
\* 12 bytes, RIFF at offset 0 and WAVE at offset 8.
PassesValidation(a) ==
    /\ a.ok
    /\ \E k \in 1..Len(a.ct) :
         k + 4 <= Len(a.ct) /\ toLowerCase(SubSeq(a.ct, k, k + 4)) = "audio"
    /\ Len(a.buf) >= 12
    /\ SubSeq(a.buf, 1, 4) = "RIFF"
    /\ SubSeq(a.buf, 9, 12) = "WAVE"

Persists(r) ==
    \E k \in 1..Len(r.out) : r.out[k][1] \in {"save", "saveGreeting", "redirect"}

\* C14: a speech response that has an error status, a non-audio content type,
\* fewer than 12 bytes, no RIFF at offset 0 or no WAVE at offset 8 is a hard
\* failure: the request that received it writes no artifact and sends no
\* redirect (a call-start falls back to <Say>, a finalize ends with an
\* error), and the audio directory is unchanged by the step; every request
\* that wrote an artifact or sent a redirect had received a payload that
\* passes all these checks.
C14_StrictWav ==
    /\ [](\A i \in 1..Len(reqs) :
            /\ Persists(reqs[i]) => PassesValidation(reqs[i].audio)
            /\ (reqs[i].audio # NoAudio /\ ~PassesValidation(reqs[i].audio))
                => /\ reqs[i].pc = "done"
                   /\ reqs[i].kind = "transcription" => reqs[i].error = "tts"
                   /\ reqs[i].kind = "voice"
                        => reqs[i].twiml[1] = <<"Say", GreetingText>>)
    /\ [][\A i \in 1..Len(reqs) :
            (reqs'[i].audio # reqs[i].audio /\ ~PassesValidation(reqs'[i].audio))
                => audioDir' = audioDir]_vars

\* A finalize received a payload with an audio content type and the RIFF tag
\* that is not a WAVE container, and ended with an error.
C14_Witness ==
    \E i \in Deliveries :
        /\ reqs[i].audio.ok
        /\ reqs[i].audio.ct = "audio/wav"
        /\ SubSeq(reqs[i].audio.buf, 1, 4) = "RIFF"
        /\ Len(reqs[i].audio.buf) >= 12
        /\ reqs[i].error = "tts"
        /\ ~Persists(reqs[i])

\* The three finality fields as the handler reads them: the first key that
\* is present, lower-cased.
FinalFlag(b) == toLowerCase(pick(b, <<"Final", "final">>))

EventType(b) == toLowerCase(pick(b, <<"TranscriptionEvent", "event", "EventType">>))

StatusField(b) == toLowerCase(pick(b, <<"TranscriptionStatus", "Status">>))

\* C15: a body whose final flag is "true" in any letter case is final whatever
\* its other fields are; a body whose event type contains "stopped" is final
\* even without a final flag; a body whose status is "completed" or "final"
\* is final; a body with none of the three is not final.
C15_Finality ==
    probe.fn = "isFinalEvent"
        => LET b == probe.in[1]
               final == probe.out[1]
           IN  /\ FinalFlag(b) = "true" => final
               /\ (\E k \in 1..(Len(EventType(b)) - 6) :
                      SubSeq(EventType(b), k, k + 6) = "stopped") => final
               /\ StatusField(b) \in {"completed", "final"} => final
               /\ (/\ FinalFlag(b) # "true"
                   /\ \A k \in 1..(Len(EventType(b)) - 6) :
                        SubSeq(EventType(b), k, k + 6) # "stopped"
                   /\ StatusField(b) \notin {"completed", "final"}) => ~final

\* A body flagged "TRUE" whose event type and status say nothing was
\* classified as final.
C15_Witness ==
    /\ probe.fn = "isFinalEvent"
    /\ probe.in[1] = [Final |-> "TRUE", TranscriptionEvent |-> "transcription-content",
                     TranscriptionStatus |-> "in-progress"]
    /\ probe.out[1] = TRUE

\* The keys of the bodies above in lexicographic (code unit) order.
KeyOrder == <<"CallSid", "From", "Zed", "callSid">>

RECURSIVE Concatenated(_, _)
\* Each key of the list that the body has, followed by its value.
Concatenated(b, keys) ==
    IF keys = <<>> THEN ""
    ELSE (IF Head(keys) \in DOMAIN b THEN Head(keys) \o b[Head(keys)] ELSE "")
         \o Concatenated(b, Tail(keys))

Canonical(url, b) == url \o Concatenated(b, KeyOrder)

\* The calls of the verifier that had verification enabled and returned true.
Accepted == probe.fn = "validateTwilioSignature" /\ probe.in[1] /\ probe.out[1]

\* C16 as stated, for the body: giving an accepted request any other body
\* makes it rejected.
C16_AnyOtherBodyRejected ==
    Accepted =>
        \A b \in VerifyBodies \ {probe.in[5]} :
            ~validateTwilioSignature(TRUE, probe.in[2], probe.in[3], probe.in[4], b)

\* C16: the verifier returns true whenever it is disabled; enabled, it
\* returns false without a header, a secret or a URL, and otherwise true
\* exactly when the header is the HMAC, keyed by the secret, of the URL
\* followed by every key in lexicographic order with its value. Giving an
\* accepted request another secret or another URL makes it rejected; giving
\* it another body makes it rejected exactly when the concatenation of the
\* sorted keys and values differs.
C16_Verification ==
    probe.fn = "validateTwilioSignature"
        => LET enabled == probe.in[1]
               authToken == probe.in[2]
               url == probe.in[3]
               sigHeader == probe.in[4]
               body == probe.in[5]
               ok == probe.out[1]
           IN  /\ ~enabled => ok
               /\ (enabled /\ (sigHeader = NoHeader \/ authToken = "" \/ url = ""))
                    => ~ok
               /\ (enabled /\ sigHeader # NoHeader /\ authToken # "" /\ url # "")
                    => ok = (sigHeader = <<authToken, Canonical(url, body)>>)
               /\ (enabled /\ ok)
                    => /\ \A k \in VerifyTokens \ {authToken} :
                            ~validateTwilioSignature(TRUE, k, url, sigHeader, body)
                       /\ \A u \in VerifyUrls \ {url} :
                            ~validateTwilioSignature(TRUE, authToken, u, sigHeader, body)
                       /\ \A b \in VerifyBodies :
                            validateTwilioSignature(TRUE, authToken, url, sigHeader, b)
                                = (Concatenated(b, KeyOrder)
                                    = Concatenated(body, KeyOrder))

\* A request whose body has the keys callSid and Zed was accepted.
C16_Witness ==
    /\ Accepted
    /\ probe.in[5] = K1
    /\ probe.in[4] = <<AuthToken, VoiceUrl \o "Zed1callSidCA2">>

\* The first and last byte that the range headers above ask for.
Asked ==
    "bytes=0-9" :> <<0, 9>> @@ "bytes=5-5" :> <<5, 5>> @@ "bytes=0-99" :> <<0, 99>>
    @@ "bytes=0-100" :> <<0, 100>> @@ "bytes=0-199" :> <<0, 199>>
    @@ "bytes=9-0" :> <<9, 0>> @@ "bytes=99-99" :> <<99, 99>>
    @@ "bytes=100-100" :> <<100, 100>> @@ "bytes=3-12" :> <<3, 12>>

SizeText == 100 :> "100" @@ 10 :> "10"

ByteText ==
    0 :> "0" @@ 3 :> "3" @@ 5 :> "5" @@ 9 :> "9" @@ 12 :> "12" @@ 99 :> "99"

\* C17: GET of an existing file of N bytes with Range bytes=s-e, s <= e and
\* s < N, is answered 206 with the bytes s to min(e, N-1), Content-Range
\* "bytes s-min(e,N-1)/N" and a body of min(e,N-1)-s+1 bytes.
C17_RangeClamped ==
    (/\ probe.fn = "audio"
     /\ probe.in[1] = "GET"
     /\ probe.in[2] = "a.wav"
     /\ probe.in[4] \in DOMAIN Asked)
        => LET total == probe.in[3]
               first == Asked[probe.in[4]][1]
               asked == Asked[probe.in[4]][2]
               last == IF asked < total - 1 THEN asked ELSE total - 1
               res == probe.out[1]
           IN  (first <= asked /\ first < total)
                   => /\ res.status = 206
                      /\ res.contentRange
                           = "bytes " \o ByteText[first] \o "-" \o ByteText[last]
                                \o "/" \o SizeText[total]
                      /\ res.sent = last - first + 1

\* C18: a suppressed duplicate leaves the dedup map as it is, so the time in
\* the entry of a call is always the arrival time of its last processed
\* delivery; a delivery of the same text that arrives 5000 ms or more after
\* the last processed one is processed, however recent the suppressed
\* duplicates in between are.
C18_WindowNeverExtends ==
    /\ [][(/\ Len(reqs') = Len(reqs) + 1
           /\ reqs'[Len(reqs')].kind = "transcription"
           /\ ~Started(reqs'[Len(reqs')]))
            => recentByCall' = recentByCall]_vars
    /\ [](\A i \in Deliveries :
            OwnEarlier(i) # {}
                => /\ reqs[i].in.callSid \in DOMAIN recentByCall
                   /\ recentByCall[reqs[i].in.callSid].ts >= reqs[OwnLast(i)].at
                   /\ (/\ reqs[i].in.text = reqs[OwnLast(i)].in.text
                       /\ reqs[i].at - reqs[OwnLast(i)].at >= DedupWindowMs)
                        => Started(reqs[i]))
    /\ [](\A c \in DOMAIN recentByCall :
            \E i \in Deliveries :
                /\ Started(reqs[i])
                /\ reqs[i].in.callSid = c
                /\ recentByCall[c] = [text |-> reqs[i].in.text, ts |-> reqs[i].at])

\* Three deliveries of one final: the first processed, the second suppressed
\* inside the window, the third processed exactly 5000 ms after the first and
\* less than 5000 ms after the suppressed one.
C18_Witness ==
    /\ Len(reqs) = 3
    /\ {1, 2, 3} \subseteq Deliveries
    /\ SameTurn(1, 2) /\ SameTurn(2, 3)
    /\ Started(reqs[1]) /\ ~Started(reqs[2]) /\ Started(reqs[3])
    /\ reqs[2].at > reqs[1].at
    /\ reqs[3].at - reqs[1].at = DedupWindowMs
    /\ reqs[3].at - reqs[2].at < DedupWindowMs

\* C19: the gate holds one text per call: a delivery whose text differs from
\* that of the last processed delivery of its call is processed whatever the
\* time, so of three consecutive deliveries A, B, A of a call (A # B) that
\* start with a processed A, all three are processed, also inside 5000 ms.
C19_OnlyLastTextRemembered ==
    /\ \A k \in Deliveries :
         (OwnEarlier(k) # {} /\ reqs[OwnLast(k)].in.text # reqs[k].in.text)
            => Started(reqs[k])
    /\ \A i, j, k \in Deliveries :
         (/\ i < j /\ j < k
          /\ reqs[i].in.callSid = reqs[j].in.callSid
          /\ reqs[j].in.callSid = reqs[k].in.callSid
          /\ reqs[i].in.text = reqs[k].in.text
          /\ reqs[i].in.text # reqs[j].in.text
          /\ \A m \in Deliveries :
               (i < m /\ m < k /\ reqs[m].in.callSid = reqs[i].in.callSid) => m = j
          /\ Started(reqs[i]))
            => Started(reqs[j]) /\ Started(reqs[k])

\* "hello", "bye", "hello" of call CA1 inside one window: two finalizes for
\* "hello".
C19_Witness ==
    /\ Len(reqs) = 3
    /\ {1, 2, 3} \subseteq Deliveries
    /\ reqs[1].in.text = "hello" /\ reqs[2].in.text = "bye" /\ reqs[3].in.text = "hello"
    /\ reqs[3].at - reqs[1].at < DedupWindowMs
    /\ Started(reqs[1]) /\ Started(reqs[2]) /\ Started(reqs[3])

\* C20: the entry of an accepted final is in the dedup map from the step of
\* its arrival, and the failure of its finalize leaves the map unchanged: a
\* delivery of the same text for the same call less than 5000 ms after one
\* whose finalize failed (with no other utterance of the call processed in
\* between) is suppressed and makes no downstream request.
C20_FailedTurnNotRetried ==
    /\ [][\A i \in 1..Len(reqs) :
            reqs'[i].error # reqs[i].error => recentByCall' = recentByCall]_vars
    /\ [](\A i \in Deliveries :
            (reqs[i].error # "" /\ (\A m \in Deliveries :
                (m > i /\ reqs[m].in.callSid = reqs[i].in.callSid) => ~Started(reqs[m])))
                => /\ reqs[i].in.callSid \in DOMAIN recentByCall
                   /\ recentByCall[reqs[i].in.callSid]
                        = [text |-> reqs[i].in.text, ts |-> reqs[i].at])
    /\ [](\A i, j \in Deliveries :
            (/\ i < j
             /\ SameTurn(i, j)
             /\ reqs[i].error # ""
             /\ reqs[j].at - reqs[i].at < DedupWindowMs
             /\ NothingBetween(i, j))
                => /\ ~Started(reqs[j])
                   /\ Ops(reqs[j].out) = <<"ack">>
                   /\ reqs[j].pc = "done")

\* The finalize of a turn failed at the redirect and the final was delivered
\* again inside the window.
C20_Witness ==
    \E i, j \in Deliveries :
        /\ i < j
        /\ SameTurn(i, j)
        /\ reqs[i].error = "redirect"
        /\ reqs[j].at > reqs[i].at
        /\ reqs[j].at - reqs[i].at < DedupWindowMs
        /\ reqs[j].log = "duplicate"

\* The first call-start of call c.
FirstStart(c) == CHOOSE i \in CallStarts(c) : \A j \in CallStarts(c) : i <= j

\* C21: the answer to the first call-start of a call is a normal response
\* whose first element is a greeting, followed by the start-transcription
\* and pause elements: <Play> of the greeting artifact when the greeting is
\* there or was synthesized and saved, <Say> of the greeting phrase when the
\* synthesis or the save failed; in both cases the call is in the greeted set
\* and its later call-starts get the listening markup alone.
C21_GreetingFallback ==
    \A c \in CallSids :
        CallStarts(c) # {}
            => /\ c \in greeted
               /\ LET r == reqs[FirstStart(c)]
                  IN  r.pc = "done"
                        => /\ r.status = 200
                           /\ Len(r.twiml) = 3
                           /\ SubSeq(r.twiml, 2, 3) = ListenTwiml
                           /\ r.twiml[1] =
                                IF r.error = ""
                                THEN <<"Play", "https://" \o Host \o "/audio/greeting.wav">>
                                ELSE <<"Say", GreetingText>>
                           /\ r.error \in {"", "tts", "saveGreeting"}
                           /\ r.error = "" => GreetingFile \in audioDir
               /\ \A j \in CallStarts(c) \ {FirstStart(c)} :
                    reqs[j].status = 200 /\ reqs[j].twiml = ListenTwiml

\* The greeting could not be saved on the first call-start of CA1, which was
\* answered with <Say>; the next call-start of CA1 got no greeting.
C21_Witness ==
    \E i, j \in CallStarts("CA1") :
        /\ i < j
        /\ reqs[i].error = "saveGreeting"
        /\ reqs[i].twiml[1][1] = "Say"
        /\ reqs[j].twiml = ListenTwiml
        /\ "CA1" \in greeted

\* The call-starts without a call identifier.
Anonymous ==
    {i \in 1..Len(reqs) : /\ reqs[i].kind = "voice"
                          /\ reqs[i].status # RejectStatus
                          /\ \/ "CallSid" \notin DOMAIN reqs[i].in.body
                             \/ reqs[i].in.body["CallSid"] = ""}

\* C22: the empty identifier is never in the greeted set; a call-start whose
\* CallSid is missing or empty is answered with the listening markup without
\* a greeting and without a synthesis request, and its arrival leaves the
\* greeted set unchanged.
C22_NoIdNoGreeting ==
    /\ []("" \notin greeted)
    /\ [](\A i \in Anonymous :
            /\ reqs[i].pc = "done"
            /\ reqs[i].status = 200
            /\ reqs[i].twiml = ListenTwiml
            /\ reqs[i].out = <<>>)
    /\ [][(/\ Len(reqs') = Len(reqs) + 1
           /\ reqs'[Len(reqs')].kind = "voice"
           /\ \/ "CallSid" \notin DOMAIN reqs'[Len(reqs')].in.body
              \/ reqs'[Len(reqs')].in.body["CallSid"] = "")
            => greeted' = greeted]_vars

\* Three call-starts came without an identifier, with a missing and with an
\* empty CallSid among them.
C22_Witness ==
    /\ Len(reqs) = 3
    /\ Anonymous = {1, 2, 3}
    /\ reqs[1].in.body = V0 /\ reqs[2].in.body = V00 /\ reqs[3].in.body = V0
    /\ greeted = {}

\* The requests signed with another key than the secret, with verification
\* enabled.
ForgedRequests ==
    {i \in 1..Len(reqs) : validateSignature /\ reqs[i].in.sig[1] # AuthToken}

\* C23: with verification enabled, the arrival of a request that is not
\* signed with the secret changes nothing but the list of requests: not the
\* greeted set, the dedup map, the audio directory or the number of draws;
\* the request has ended and has started no synthesis, chat, save or
\* redirect; the greeted set and the dedup map hold only calls of requests
\* that were signed with the secret.
C23_ForgedNoEffect ==
    /\ [][(/\ Len(reqs') = Len(reqs) + 1
           /\ validateSignature
           /\ reqs'[Len(reqs')].in.sig[1] # AuthToken)
            => /\ UNCHANGED <<greeted, recentByCall, audioDir, rnd, now, faults>>
               /\ SubSeq(reqs', 1, Len(reqs)) = reqs]_vars
    /\ [](\A i \in ForgedRequests :
            /\ reqs[i].pc = "done"
            /\ reqs[i].twiml = <<>>
            /\ \A k \in 1..Len(reqs[i].out) : reqs[i].out[k][1] = "ack")
    /\ [](validateSignature
            => /\ \A c \in greeted :
                    \E i \in (1..Len(reqs)) \ ForgedRequests :
                        reqs[i].kind = "voice" /\ reqs[i].in.callSid = c
               /\ \A c \in DOMAIN recentByCall :
                    \E i \in (1..Len(reqs)) \ ForgedRequests :
                        reqs[i].kind = "transcription" /\ reqs[i].in.callSid = c)

\* A forged call-start and a forged final for CA2 were dropped; the genuine
\* final for CA2 that came right after was processed.
C23_Witness ==
    /\ Len(reqs) = 3
    /\ ForgedRequests = {1, 2}
    /\ reqs[1].kind = "voice"
    /\ reqs[2].kind = "transcription" /\ reqs[2].in.isFinal /\ reqs[2].in.text # ""
    /\ reqs[3].kind = "transcription"
    /\ reqs[3].in.callSid = reqs[2].in.callSid
    /\ reqs[3].in.text = reqs[2].in.text
    /\ reqs[3].at = reqs[2].at
    /\ Started(reqs[3])
    /\ greeted = {}

====
